---- MODULE Spec2Model ----
(***************************************************************************)
(* Model of crablang.file_parser.FileParser (src/src/crablang/             *)
(* file_parser.py): parse_content with its regular-expression line check,  *)
(* _parse_line / _parse_fallback, validate_flashcards and get_parse_stats. *)
(*                                                                         *)
(* A Python str is modelled as a sequence of one-character strings, so     *)
(* that strip, split, startswith and re.match are computed character by    *)
(* character as the interpreter computes them.                             *)
(***************************************************************************)
EXTENDS Integers, Sequences, FiniteSets, TLC

(***************************************************************************)
(* Bounds of the explored input space.                                     *)
(***************************************************************************)
MaxLines == 3
MaxPairs == 2

(***************************************************************************)
(* Python str primitives.                                                  *)
(***************************************************************************)
\* characters str.strip() and str.split(None) treat as whitespace
Whitespace == {" ", "\t", "\n", "\r", "\f"}

\* s is empty or made of whitespace only
IsSpace(s) == \A i \in 1..Len(s) : s[i] \in Whitespace

\* str.lstrip(): from the first character that is not whitespace on
lstrip(s) ==
  IF IsSpace(s) THEN <<>>
  ELSE SubSeq(s, CHOOSE i \in 1..Len(s) :
                   s[i] \notin Whitespace
                   /\ \A j \in 1..(i - 1) : s[j] \in Whitespace,
              Len(s))

\* str.rstrip(): up to the last character that is not whitespace
rstrip(s) ==
  IF IsSpace(s) THEN <<>>
  ELSE SubSeq(s, 1, CHOOSE i \in 1..Len(s) :
                      s[i] \notin Whitespace
                      /\ \A j \in (i + 1)..Len(s) : s[j] \in Whitespace)

\* str.strip()
strip(s) == rstrip(lstrip(s))

\* str.startswith(p)
startswith(s, p) == Len(s) >= Len(p) /\ SubSeq(s, 1, Len(p)) = p

\* sub in s
contains(s, sub) ==
  \E i \in 1..(Len(s) + 1) :
    i + Len(sub) - 1 <= Len(s) /\ SubSeq(s, i, i + Len(sub) - 1) = sub

\* s.find(sep): index of the first occurrence of the non-empty sep, 0 if none
find(s, sep) ==
  LET hits == {i \in 1..Len(s) :
                 i + Len(sep) - 1 <= Len(s)
                 /\ SubSeq(s, i, i + Len(sep) - 1) = sep}
  IN IF hits = {} THEN 0 ELSE CHOOSE i \in hits : \A j \in hits : i <= j

\* s.split(sep) for a non-empty sep: a left-to-right scan, every occurrence
\* splits; i is the scan position and start the first index of the piece
RECURSIVE split_from(_, _, _, _)
split_from(s, sep, i, start) ==
  IF i + Len(sep) - 1 > Len(s) THEN <<SubSeq(s, start, Len(s))>>
  ELSE IF SubSeq(s, i, i + Len(sep) - 1) = sep
    THEN <<SubSeq(s, start, i - 1)>>
           \o split_from(s, sep, i + Len(sep), i + Len(sep))
  ELSE split_from(s, sep, i + 1, start)

split(s, sep) == split_from(s, sep, 1, 1)

\* s.split(sep, 1) for a non-empty sep: at most one split, at the first
\* occurrence
split1(s, sep) ==
  LET i == find(s, sep)
  IN IF i = 0 THEN <<s>>
     ELSE <<SubSeq(s, 1, i - 1), SubSeq(s, i + Len(sep), Len(s))>>

\* s.split(None, 1): leading whitespace is dropped, the first word ends at
\* the first whitespace run, the rest keeps its trailing whitespace
split_ws1(s) ==
  LET t == lstrip(s)
      ws == {i \in 1..Len(t) : t[i] \in Whitespace}
      e == IF ws = {} THEN Len(t) + 1
           ELSE CHOOSE i \in ws : \A j \in ws : i <= j
      rest == lstrip(SubSeq(t, e, Len(t)))
  IN IF t = <<>> THEN <<>>
     ELSE IF rest = <<>> THEN <<SubSeq(t, 1, e - 1)>>
     ELSE <<SubSeq(t, 1, e - 1), rest>>

\* "\n".join(ls)
RECURSIVE join(_)
join(ls) ==
  IF Len(ls) = 1 THEN ls[1] ELSE ls[1] \o <<"\n">> \o join(Tail(ls))

(***************************************************************************)
(* The re module, for the patterns parse_content builds: anchors, literal  *)
(* characters, character sets, the + repeat, alternation, and an opening   *)
(* parenthesis (which these patterns never close).                         *)
(***************************************************************************)
\* the closing bracket of the set whose first member is at j (a "]" in the
\* first position is a member); 0 if the set is not terminated
SetEnd(p, j) ==
  LET cl == {k \in (j + 1)..Len(p) : p[k] = "]"}
  IN IF cl = {} THEN 0 ELSE CHOOSE k \in cl : \A m \in cl : k <= m

\* sre_parse: pattern text -> alternatives, each a sequence of items
RECURSIVE sre_parse(_, _, _, _)
sre_parse(p, i, cur, alts) ==
  IF i > Len(p) THEN [err |-> "None", alts |-> Append(alts, cur)]
  ELSE IF p[i] = "|" THEN sre_parse(p, i + 1, <<>>, Append(alts, cur))
  ELSE IF p[i] = "(" THEN [err |-> "re.error", alts |-> <<>>]
  ELSE IF p[i] = "^"
    THEN sre_parse(p, i + 1, Append(cur, [kind |-> "bol"]), alts)
  ELSE IF p[i] = "$"
    THEN sre_parse(p, i + 1, Append(cur, [kind |-> "eol"]), alts)
  ELSE IF p[i] = "+"
    THEN IF cur = <<>> \/ cur[Len(cur)].kind \in {"bol", "eol"}
            \/ cur[Len(cur)].plus
         THEN [err |-> "re.error", alts |-> <<>>]
         ELSE sre_parse(p, i + 1,
                [cur EXCEPT ![Len(cur)] = [@ EXCEPT !.plus = TRUE]], alts)
  ELSE IF p[i] = "["
    THEN LET neg == i + 1 <= Len(p) /\ p[i + 1] = "^"
             j == IF neg THEN i + 2 ELSE i + 1
             e == SetEnd(p, j)
         IN IF j > Len(p) \/ e = 0
            THEN [err |-> "re.error", alts |-> <<>>]
            ELSE sre_parse(p, e + 1,
                   Append(cur, [kind |-> "set", neg |-> neg,
                                chars |-> {p[k] : k \in j..(e - 1)},
                                plus |-> FALSE]), alts)
  ELSE sre_parse(p, i + 1,
         Append(cur, [kind |-> "set", neg |-> FALSE, chars |-> {p[i]},
                      plus |-> FALSE]), alts)

\* re.compile(pattern)
re_compile(p) == sre_parse(p, 1, <<>>, <<>>)

\* one character against a set item
InSet(item, c) == IF item.neg THEN c \notin item.chars ELSE c \in item.chars

\* the items from k on match s from position pos on (a prefix match, with
\* backtracking over the repeats)
RECURSIVE sre_match(_, _, _, _)
sre_match(items, k, s, pos) ==
  IF k > Len(items) THEN TRUE
  ELSE IF items[k].kind = "bol" THEN pos = 1 /\ sre_match(items, k + 1, s, pos)
  ELSE IF items[k].kind = "eol"
    THEN pos = Len(s) + 1 /\ sre_match(items, k + 1, s, pos)
  ELSE IF ~items[k].plus
    THEN pos <= Len(s) /\ InSet(items[k], s[pos])
         /\ sre_match(items, k + 1, s, pos + 1)
  ELSE \E n \in 1..(Len(s) - pos + 1) :
         /\ \A q \in pos..(pos + n - 1) : InSet(items[k], s[q])
         /\ sre_match(items, k + 1, s, pos + n)

\* re.match(pattern, line): the exception raised ("None" if none) and
\* whether the line matched
re_match(p, line) ==
  LET c == re_compile(p)
  IN [raised |-> c.err,
      matched |-> c.err = "None"
                  /\ \E a \in 1..Len(c.alts) : sre_match(c.alts[a], 1, line, 1)]


(***************************************************************************)
(* FileParser.                                                             *)
(***************************************************************************)
VARIABLES
  parse_stats,      \* self.parse_stats
  detected_format,  \* self.detected_format
  pc,               \* "idle", the method that is running, or "raised"
  exc,              \* the exception that reached the caller, or "None"
  content,          \* parse_content / detect_file_format: the content argument
  delimiter,        \* parse_content: the delimiter argument
  pattern,          \* parse_content: the pattern text
  lines,            \* parse_content: content.split("\n")
  line_num,         \* parse_content: 1-based number of the next line
  flashcards,       \* parse_content: the dict built so far, in insertion order
  reused,           \* history: the running parse_content call is not the
                    \* first one on this parser
  cards,            \* validate_flashcards: the dict passed in
  item_num,         \* validate_flashcards: 1-based number of the next item
  issues            \* validate_flashcards: the issues list

vars == <<parse_stats, detected_format, pc, exc, content, delimiter, pattern,
          lines, line_num, flashcards, reused, cards, item_num, issues>>

parse_frame ==
  <<content, delimiter, pattern, lines, line_num, flashcards, reused>>
validate_frame == <<cards, item_num, issues>>

\* Optional[str]
None == <<"None">>
Str(s) == <<"str", s>>
\* truth value of an Optional[str]: None and "" are false
Truthy(v) == v[1] = "str" /\ v[2] # <<>>

\* classes an "except Exception" clause catches
Exception == {"re.error", "ValueError", "AttributeError"}

\* __init__: the statistics of a new parser
InitStats ==
  [total_lines |-> 0, valid_pairs |-> 0, skipped_lines |-> 0, errors |-> 0]

\* mutant of reset_stats: the counters of the last call are kept
reset_stats_keep(old) == old

\* parse_content, first statement: self.parse_stats is replaced by a new dict
reset_stats(old) ==
  [total_lines |-> 0, valid_pairs |-> 0, skipped_lines |-> 0, errors |-> 0]

\* the pattern text parse_content concatenates around the delimiter
build_pattern(d) ==
  <<"^", "[", "^">> \o d \o <<"]", "+">> \o d \o <<"[", "^">> \o d
    \o <<"]", "+", "$">>

\* _parse_fallback(line)
parse_fallback(line) ==
  LET ds == split1(line, <<" ", " ">>)
      co == split1(line, <<":">>)
      ws == split_ws1(line)
  IN IF contains(line, <<" ", " ">>) /\ Len(ds) = 2
       THEN <<Str(strip(ds[1])), Str(strip(ds[2]))>>
     ELSE IF contains(line, <<":">>) /\ Len(co) = 2
       THEN <<Str(strip(co[1])), Str(strip(co[2]))>>
     ELSE IF Len(ws) = 2
       THEN <<Str(strip(ws[1])), Str(strip(ws[2]))>>
     ELSE <<None, None>>

\* _parse_line(line, delimiter); str.split raises ValueError on an empty
\* separator
parse_line(line, d) ==
  IF d = <<>> THEN [raised |-> "ValueError", val |-> <<None, None>>]
  ELSE LET parts == split1(line, d)
       IN IF Len(parts) = 2
          THEN [raised |-> "None",
                val |-> <<Str(strip(parts[1])), Str(strip(parts[2]))>>]
          ELSE [raised |-> "None", val |-> parse_fallback(line)]

\* flashcards[term] = definition: an existing key keeps its place
dict_set(d, term, definition) ==
  IF \E i \in 1..Len(d) : d[i][1] = term
  THEN [i \in 1..Len(d) |->
          IF d[i][1] = term THEN <<term, definition>> ELSE d[i]]
  ELSE Append(d, <<term, definition>>)

\* term in flashcards
dict_has(d, term) == \E i \in 1..Len(d) : d[i][1] = term

\* flashcards[term]
dict_get(d, term) == d[CHOOSE i \in 1..Len(d) : d[i][1] = term][2]

\* the try block of the loop, for one stripped line that is neither blank
\* nor a comment
try_block(stats, fc, line, pat, d) ==
  LET m == re_match(pat, line)
      r == parse_line(line, d)
  IN IF m.raised # "None" THEN [raised |-> m.raised, stats |-> stats, fc |-> fc]
     ELSE IF m.matched
       THEN IF r.raised # "None"
              THEN [raised |-> r.raised, stats |-> stats, fc |-> fc]
            ELSE IF Truthy(r.val[1]) /\ Truthy(r.val[2])
              THEN [raised |-> "None",
                    stats |-> [stats EXCEPT !.valid_pairs = @ + 1],
                    fc |-> dict_set(fc, r.val[1][2], r.val[2][2])]
            ELSE [raised |-> "None",
                  stats |-> [stats EXCEPT !.skipped_lines = @ + 1], fc |-> fc]
     ELSE [raised |-> "None",
           stats |-> [stats EXCEPT !.errors = @ + 1], fc |-> fc]

\* mutant of except_Exception: the clause names ValueError only
except_ValueError(e) == e = "ValueError"

\* except Exception: whether the clause catches e
except_Exception(e) == e \in Exception

\* mutant of loop_body: a blank or comment line is passed over without
\* being counted
loop_body_uncounted(stats, fc, raw, pat, d) ==
  LET line == strip(raw)
      t == try_block(stats, fc, line, pat, d)
  IN IF line = <<>> \/ startswith(line, <<"#">>)
       THEN [raised |-> "None", stats |-> stats, fc |-> fc]
     ELSE IF t.raised = "None" THEN t
     ELSE IF except_Exception(t.raised)
       THEN [raised |-> "None",
             stats |-> [t.stats EXCEPT !.errors = @ + 1], fc |-> t.fc]
     ELSE t

\* one iteration of the loop over the lines
loop_body(stats, fc, raw, pat, d) ==
  LET line == strip(raw)
      t == try_block(stats, fc, line, pat, d)
  IN IF line = <<>> \/ startswith(line, <<"#">>)
       THEN [raised |-> "None",
             stats |-> [stats EXCEPT !.skipped_lines = @ + 1], fc |-> fc]
     ELSE IF t.raised = "None" THEN t
     ELSE IF except_Exception(t.raised)
       THEN [raised |-> "None",
             stats |-> [t.stats EXCEPT !.errors = @ + 1], fc |-> t.fc]
     ELSE t

\* get_parse_stats(): a copy of self.parse_stats
get_parse_stats == [k \in DOMAIN parse_stats |-> parse_stats[k]]

\* validate_flashcards: the length limits of a term and of a definition
MaxTermLen == 100
MaxDefinitionLen == 500

\* mutant of validate_item: the length checks use >= for >
validate_item_ge(iss, term, definition) ==
  LET i1 == IF strip(term) = <<>>
              THEN Append(iss, <<term, "Empty term">>) ELSE iss
      i2 == IF strip(definition) = <<>>
              THEN Append(i1, <<term, "Empty definition">>) ELSE i1
      i3 == IF Len(term) >= MaxTermLen
              THEN Append(i2, <<term, "Term too long">>) ELSE i2
      i4 == IF Len(definition) >= MaxDefinitionLen
              THEN Append(i3, <<term, "Definition too long">>) ELSE i3
  IN i4

\* mutant of validate_item: an empty definition is reported by two checks,
\* one for "" and one for whitespace only
validate_item_twice(iss, term, definition) ==
  LET i1 == IF strip(term) = <<>>
              THEN Append(iss, <<term, "Empty term">>) ELSE iss
      i2 == IF definition = <<>> \/ strip(definition) = <<>>
              THEN Append(i1, <<term, "Empty definition">>) ELSE i1
      i2b == IF strip(definition) = <<>>
              THEN Append(i2, <<term, "Blank definition">>) ELSE i2
      i3 == IF Len(term) > MaxTermLen
              THEN Append(i2b, <<term, "Term too long">>) ELSE i2b
      i4 == IF Len(definition) > MaxDefinitionLen
              THEN Append(i3, <<term, "Definition too long">>) ELSE i3
  IN i4

\* validate_flashcards, the body of the loop: the issues list after the
\* four checks of one item
validate_item(iss, term, definition) ==
  LET i1 == IF strip(term) = <<>>
              THEN Append(iss, <<term, "Empty term">>) ELSE iss
      i2 == IF strip(definition) = <<>>
              THEN Append(i1, <<term, "Empty definition">>) ELSE i1
      i3 == IF Len(term) > MaxTermLen
              THEN Append(i2, <<term, "Term too long">>) ELSE i2
      i4 == IF Len(definition) > MaxDefinitionLen
              THEN Append(i3, <<term, "Definition too long">>) ELSE i3
  IN i4

\* the attributes of a FileParser instance: its methods and the two fields
\* __init__ sets
FileParserAttributes ==
  {"__init__", "read_file_with_encoding_detection", "parse_content",
   "_parse_line", "_parse_fallback", "validate_flashcards", "get_parse_stats",
   "detected_format", "parse_stats"}

\* self.<name>: the exception the attribute lookup raises, "None" if none
getattr_raises(name) ==
  IF name \in FileParserAttributes THEN "None" ELSE "AttributeError"

(***************************************************************************)
(* Inputs.                                                                 *)
(***************************************************************************)
TAB == <<"\t">>
COMMA == <<",">>
SEMICOLON == <<";">>
DOUBLE_HASH == <<"#", "#">>
PIPE == <<"|">>
Supported == {TAB, COMMA, SEMICOLON, DOUBLE_HASH, PIPE}
\* the delimiters a call may pass: the supported ones, the empty string and
\* two more regular-expression special characters
Delimiters == Supported \cup {<<>>, <<"(">>, <<"[">>}

\* the lines a content for delimiter d is made of
LineSet(d) ==
  { <<>>,
    <<"#", "c">>,
    <<"a">> \o d \o <<"x">>,
    <<" ", "a", " ">> \o d \o <<" ", "y">>,
    <<"a">>,
    <<"a", " ", "z">>,
    <<"b">> \o d \o <<"x">> \o d \o <<"y">>,
    <<"a">> \o d }

\* the line lists a content for delimiter d is joined from
LineLists(d) == UNION {[1..n -> LineSet(d)] : n \in 1..MaxLines}

\* a str of n copies of the character ch
rep(ch, n) == [i \in 1..n |-> ch]

\* the terms and definitions of the dicts passed to validate_flashcards:
\* empty, whitespace-only, at a length limit and one past it
TermSet ==
  {<<>>, <<" ">>, rep("x", MaxTermLen), rep("x", MaxTermLen + 1),
   rep(" ", MaxTermLen + 1)}
DefinitionSet ==
  {<<>>, <<" ">>, rep("y", MaxDefinitionLen), rep("y", MaxDefinitionLen + 1),
   rep(" ", MaxDefinitionLen + 1)}

\* the dicts passed to validate_flashcards: items in insertion order, the
\* keys distinct
CardDicts ==
  {m \in UNION {[1..n -> TermSet \X DefinitionSet] : n \in 0..MaxPairs} :
     \A i, j \in 1..Len(m) : i # j => m[i][1] # m[j][1]}

\* the lines of the contents passed to detect_file_format
DetectLineSet(d) ==
  {<<"a">> \o d \o <<"x">>, <<"b">> \o d \o <<" ", "y">>, <<"a">>}
DetectLineLists ==
  UNION {UNION {[1..n -> DetectLineSet(d)] : n \in 1..MaxLines} :
         d \in Supported}

(***************************************************************************)
(* Actions.                                                                *)
(***************************************************************************)
Init ==
  /\ parse_stats = InitStats
  /\ detected_format = "None"
  /\ pc = "idle"
  /\ exc = "None"
  /\ content = <<>>
  /\ delimiter = <<>>
  /\ pattern = <<>>
  /\ lines = <<>>
  /\ line_num = 0
  /\ flashcards = <<>>
  /\ reused = FALSE
  /\ cards = <<>>
  /\ item_num = 0
  /\ issues = <<>>

\* parse_content(content, delimiter) up to the loop
ParseBegin(c, d) ==
  /\ pc = "idle"
  /\ pc' = "parse_content"
  /\ exc' = "None"
  /\ content' = c
  /\ delimiter' = d
  /\ flashcards' = <<>>
  /\ pattern' = build_pattern(d)
  /\ lines' = split(content', <<"\n">>)
  /\ parse_stats' = [reset_stats(parse_stats) EXCEPT !.total_lines = Len(lines')]
  /\ line_num' = 1
  /\ reused' = (parse_stats.total_lines > 0)
  /\ UNCHANGED <<detected_format, validate_frame>>

\* one iteration of the loop; an exception the loop does not catch reaches
\* the caller, which has no handler for it
ParseLine ==
  /\ pc = "parse_content"
  /\ line_num <= Len(lines)
  /\ LET r == loop_body(parse_stats, flashcards, lines[line_num], pattern,
                        delimiter)
     IN IF r.raised = "None"
        THEN /\ parse_stats' = r.stats
             /\ flashcards' = r.fc
             /\ line_num' = line_num + 1
             /\ UNCHANGED <<pc, exc, content, delimiter, pattern, lines, reused>>
        ELSE /\ exc' = r.raised
             /\ pc' = "raised"
             /\ UNCHANGED <<parse_stats, parse_frame>>
  /\ UNCHANGED <<detected_format, validate_frame>>

\* return flashcards
ParseReturn ==
  /\ pc = "parse_content"
  /\ line_num > Len(lines)
  /\ pc' = "idle"
  /\ content' = <<>>
  /\ delimiter' = <<>>
  /\ pattern' = <<>>
  /\ lines' = <<>>
  /\ line_num' = 0
  /\ flashcards' = <<>>
  /\ reused' = FALSE
  /\ UNCHANGED <<parse_stats, detected_format, exc, validate_frame>>

\* validate_flashcards(flashcards) up to the loop
ValidateBegin(m) ==
  /\ pc = "idle"
  /\ pc' = "validate_flashcards"
  /\ exc' = "None"
  /\ cards' = m
  /\ issues' = <<>>
  /\ item_num' = 1
  /\ UNCHANGED <<parse_stats, detected_format, parse_frame>>

\* one iteration of the loop over flashcards.items()
ValidateItem ==
  /\ pc = "validate_flashcards"
  /\ item_num <= Len(cards)
  /\ issues' = validate_item(issues, cards[item_num][1], cards[item_num][2])
  /\ item_num' = item_num + 1
  /\ UNCHANGED <<parse_stats, detected_format, pc, exc, cards, parse_frame>>

\* return issues
ValidateReturn ==
  /\ pc = "validate_flashcards"
  /\ item_num > Len(cards)
  /\ pc' = "idle"
  /\ cards' = <<>>
  /\ issues' = <<>>
  /\ item_num' = 0
  /\ UNCHANGED <<parse_stats, detected_format, exc, parse_frame>>

\* parser.detect_file_format(content), as tests/test_file_parser.py calls
\* it: the class defines no such attribute, the lookup raises, and the
\* caller has no handler
DetectFileFormat(c) ==
  /\ pc = "idle"
  /\ getattr_raises("detect_file_format") # "None"
  /\ pc' = "raised"
  /\ exc' = getattr_raises("detect_file_format")
  /\ content' = c
  /\ UNCHANGED <<parse_stats, detected_format, delimiter, pattern, lines,
                 line_num, flashcards, reused, validate_frame>>

Next ==
  \/ /\ pc = "idle"
     /\ \E d \in Delimiters : \E ls \in LineLists(d) : ParseBegin(join(ls), d)
  \/ ParseLine
  \/ ParseReturn
  \/ pc = "idle" /\ \E ls \in DetectLineLists : DetectFileFormat(join(ls))

Spec == Init /\ [][Next]_vars

(***************************************************************************)
(* validate_flashcards reads nothing of the parser: it is explored on its  *)
(* own, on a new parser and on one that has parsed the three lines         *)
(* "a<TAB>x", "" and "a".                                                  *)
(***************************************************************************)
ParsedStats ==
  [total_lines |-> 3, valid_pairs |-> 1, skipped_lines |-> 1, errors |-> 1]

InitValidate ==
  /\ parse_stats \in {InitStats, ParsedStats}
  /\ detected_format = "None"
  /\ pc = "idle"
  /\ exc = "None"
  /\ content = <<>>
  /\ delimiter = <<>>
  /\ pattern = <<>>
  /\ lines = <<>>
  /\ line_num = 0
  /\ flashcards = <<>>
  /\ reused = FALSE
  /\ cards = <<>>
  /\ item_num = 0
  /\ issues = <<>>

NextValidate ==
  \/ pc = "idle" /\ \E m \in CardDicts : ValidateBegin(m)
  \/ ValidateItem
  \/ ValidateReturn

SpecValidate == InitValidate /\ [][NextValidate]_vars


(***************************************************************************)
(* Vocabulary of the properties.                                           *)
(***************************************************************************)
\* parse_content is about to process a line
AtLine == pc = "parse_content" /\ line_num <= Len(lines)
\* parse_content has left the loop and is about to return flashcards
AtReturn == pc = "parse_content" /\ line_num > Len(lines)
\* validate_flashcards has left the loop and is about to return issues
AtValidateReturn == pc = "validate_flashcards" /\ item_num > Len(cards)
\* an exception left parse_content
ParseAborted == pc = "raised" /\ exc \in {"re.error", "ValueError"}

\* a trimmed line is blank or a comment
BlankOrComment(l) == l = <<>> \/ l[1] = "#"
\* the number of occurrences of d in l (str.count)
Occurrences(l, d) == Len(split(l, d)) - 1
\* the two-field shape: one occurrence of the delimiter, a non-empty field
\* before it and a non-empty field after it
TwoFieldShape(l, d) ==
  /\ d # <<>>
  /\ Occurrences(l, d) = 1
  /\ strip(split1(l, d)[1]) # <<>>
  /\ strip(split1(l, d)[2]) # <<>>
\* the trimmed term and definition of a line of the two-field shape
TermOf(l, d) == strip(split1(l, d)[1])
DefinitionOf(l, d) == strip(split1(l, d)[2])

\* the line about to be processed, trimmed
CurrentLine == strip(lines[line_num])
\* the step processes a line, counts it as an error and records nothing
CountedAsError ==
  /\ parse_stats'.errors = parse_stats.errors + 1
  /\ parse_stats'.valid_pairs = parse_stats.valid_pairs
  /\ parse_stats'.skipped_lines = parse_stats.skipped_lines
  /\ flashcards' = flashcards
\* the loop goes on to the next line
LoopContinues ==
  pc' = "parse_content" /\ line_num' = line_num + 1 /\ lines' = lines

\* the lines of the content, by position of the newlines
NumLines == Cardinality({i \in 1..Len(content) : content[i] = "\n"}) + 1
\* the trimmed lines that are blank or comments / well-formed
BlankLines ==
  {i \in 1..Len(lines) : BlankOrComment(strip(lines[i]))}
WellFormedLines ==
  {i \in 1..Len(lines) :
     ~BlankOrComment(strip(lines[i]))
     /\ TwoFieldShape(strip(lines[i]), delimiter)}
CounterSum ==
  parse_stats.valid_pairs + parse_stats.skipped_lines + parse_stats.errors

(***************************************************************************)
(* C1.  In parse_content, a line that after trimming is non-empty, does    *)
(* not start with "#" and does not have the two-field shape for the        *)
(* delimiter increments errors by exactly one, leaves valid_pairs and      *)
(* skipped_lines unchanged, adds no pair, and the loop goes on.  Stated    *)
(* for the five supported delimiters.  The code refutes it: with "|" the   *)
(* pattern is an alternation that accepts a line without a delimiter.      *)
(***************************************************************************)
C1_MalformedLineIsAnError ==
  [][(AtLine /\ delimiter \in Supported
      /\ ~BlankOrComment(CurrentLine)
      /\ ~TwoFieldShape(CurrentLine, delimiter))
     => (CountedAsError /\ LoopContinues)]_vars

(***************************************************************************)
(* C2.  parse_content never aborts: whatever the content and the           *)
(* delimiter (the empty string, "|", "(" and "[" included), every          *)
(* iteration of the loop goes on to the next line and no exception         *)
(* reaches the caller; a line whose processing raises is counted in        *)
(* errors exactly once, nothing else changing.                             *)
(***************************************************************************)
LineRaises ==
  /\ ~BlankOrComment(CurrentLine)
  /\ try_block(parse_stats, flashcards, CurrentLine, pattern,
               delimiter).raised # "None"

C2_NeverAborts ==
  [][AtLine => /\ LoopContinues
               /\ exc' = "None"
               /\ (LineRaises => CountedAsError)]_vars

\* a call with the empty delimiter has reached its return: its first line
\* matched the pattern, str.split raised ValueError, and the lines after it
\* were processed
C2_Witness ==
  /\ AtReturn
  /\ delimiter = <<>>
  /\ Len(lines) >= 2
  /\ re_match(pattern, strip(lines[1])).matched
  /\ parse_line(strip(lines[1]), delimiter).raised = "ValueError"
  /\ parse_stats.errors >= 1
  /\ parse_stats.skipped_lines >= 1

(***************************************************************************)
(* C3.  Statistics are reset per call: when a parse_content call returns,  *)
(* however many calls the parser has served before, get_parse_stats() and  *)
(* the returned mapping are those a new FileParser gives for this call's   *)
(* content and delimiter.                                                  *)
(***************************************************************************)
RECURSIVE FreshLoop(_, _, _, _, _, _)
FreshLoop(stats, fc, ls, k, pat, d) ==
  IF k > Len(ls) THEN [stats |-> stats, fc |-> fc]
  ELSE LET r == loop_body(stats, fc, ls[k], pat, d)
       IN FreshLoop(r.stats, r.fc, ls, k + 1, pat, d)

\* parse_content(c, d) on a parser fresh from __init__
FreshParse(c, d) ==
  LET ls == split(c, <<"\n">>)
  IN FreshLoop([reset_stats(InitStats) EXCEPT !.total_lines = Len(ls)],
               <<>>, ls, 1, build_pattern(d), d)

C3_StatsOfLastCallOnly ==
  AtReturn =>
    LET fresh == FreshParse(content, delimiter)
    IN get_parse_stats = fresh.stats /\ flashcards = fresh.fc

\* a later call on the same parser returns, with pairs and errors counted
C3_Witness ==
  /\ AtReturn
  /\ reused
  /\ parse_stats.valid_pairs >= 1
  /\ parse_stats.errors >= 1
  /\ parse_stats.total_lines < MaxLines

(***************************************************************************)
(* C4.  Duplicate terms: when several well-formed lines have the same      *)
(* trimmed term, the returned mapping holds for that term the definition   *)
(* of the last such line, valid_pairs is the number of well-formed lines   *)
(* and at least the number of keys, and the other lines alone are counted  *)
(* in errors and skipped_lines.  Stated for the five supported             *)
(* delimiters.  The code refutes it with "|", where a line without a       *)
(* delimiter is recorded as a pair too.                                    *)
(***************************************************************************)
LastWellFormed(t) ==
  CHOOSE i \in WellFormedLines :
    /\ TermOf(strip(lines[i]), delimiter) = t
    /\ \A j \in WellFormedLines :
         TermOf(strip(lines[j]), delimiter) = t => j <= i

DuplicateTerms ==
  {TermOf(strip(lines[i]), delimiter) : i \in
     {i \in WellFormedLines : \E j \in WellFormedLines :
        j # i /\ TermOf(strip(lines[j]), delimiter)
                   = TermOf(strip(lines[i]), delimiter)}}

C4_DuplicateTerms ==
  (AtReturn /\ delimiter \in Supported /\ DuplicateTerms # {}) =>
    /\ \A t \in DuplicateTerms :
         /\ dict_has(flashcards, t)
         /\ dict_get(flashcards, t)
              = DefinitionOf(strip(lines[LastWellFormed(t)]), delimiter)
    /\ parse_stats.valid_pairs = Cardinality(WellFormedLines)
    /\ parse_stats.valid_pairs >= Len(flashcards)
    /\ parse_stats.errors + parse_stats.skipped_lines
         = Len(lines) - Cardinality(WellFormedLines)

(***************************************************************************)
(* C5.  A line that reaches the line splitter and that neither the split   *)
(* on the delimiter nor any fallback turns into two parts is counted in    *)
(* errors and not in skipped_lines, for each supported delimiter.  The     *)
(* code refutes it: such a line is counted in skipped_lines.               *)
(***************************************************************************)
C5_UnsplittableLineIsAnError ==
  [][(AtLine /\ delimiter \in Supported
      /\ ~BlankOrComment(CurrentLine)
      /\ re_match(pattern, CurrentLine).matched
      /\ Len(split1(CurrentLine, delimiter)) # 2
      /\ parse_fallback(CurrentLine) = <<None, None>>)
     => /\ parse_stats'.errors = parse_stats.errors + 1
        /\ parse_stats'.skipped_lines = parse_stats.skipped_lines]_vars

(***************************************************************************)
(* C6.  Strict two-field match: for each supported delimiter a pair is     *)
(* recorded only from a line with exactly one occurrence of the delimiter  *)
(* and a non-empty field on either side, and a non-blank, non-comment      *)
(* line with no occurrence or with two or more is counted in errors and    *)
(* records no pair.  The code refutes it with "|".                         *)
(***************************************************************************)
C6_StrictTwoFieldMatch ==
  [][(AtLine /\ delimiter \in Supported) =>
       /\ (flashcards' # flashcards
           \/ parse_stats'.valid_pairs # parse_stats.valid_pairs)
            => TwoFieldShape(CurrentLine, delimiter)
       /\ (~BlankOrComment(CurrentLine)
           /\ Occurrences(CurrentLine, delimiter) # 1)
            => CountedAsError]_vars

(***************************************************************************)
(* C7.  Counter accounting, for a content of N lines whose non-blank,      *)
(* non-comment lines all are term<delim>definition with one delimiter.     *)
(* As claimed, for the supported delimiters: total_lines = N and           *)
(* valid_pairs + skipped_lines + errors = N minus the number of blank or   *)
(* comment lines.  The code refutes the sum: blank and comment lines are   *)
(* counted in skipped_lines.                                               *)
(***************************************************************************)
C7_Precondition ==
  /\ delimiter # <<>>
  /\ \A i \in 1..Len(lines) :
       BlankOrComment(strip(lines[i]))
       \/ TwoFieldShape(strip(lines[i]), delimiter)

C7_SumExcludesBlankLines ==
  (AtReturn /\ delimiter \in Supported /\ C7_Precondition) =>
    /\ parse_stats.total_lines = NumLines
    /\ CounterSum = NumLines - Cardinality(BlankLines)

\* C7 as amended, for every non-empty delimiter: total_lines = N,
\* skipped_lines is the number of blank or comment lines, and
\* valid_pairs + skipped_lines + errors = N
C7_SumIsTotalLines ==
  (AtReturn /\ C7_Precondition) =>
    /\ parse_stats.total_lines = NumLines
    /\ parse_stats.skipped_lines = Cardinality(BlankLines)
    /\ CounterSum = NumLines

\* a content of three lines has been parsed: a blank line, a comment and a
\* well-formed line
C7_Witness ==
  /\ AtReturn
  /\ C7_Precondition
  /\ NumLines = 3
  /\ \E i, j \in BlankLines : strip(lines[i]) = <<>> /\ strip(lines[j]) # <<>>
  /\ parse_stats.valid_pairs = 1

(***************************************************************************)
(* C8.  validate_flashcards returns exactly the issues of four             *)
(* independent rules over every pair: "Empty term" iff the term is empty   *)
(* or whitespace only, "Empty definition" iff the definition is, "Term     *)
(* too long" iff the term has more than 100 characters, "Definition too    *)
(* long" iff the definition has more than 500; and the call changes        *)
(* neither the mapping passed in nor the parser's statistics.              *)
(***************************************************************************)
Reasons ==
  {"Empty term", "Empty definition", "Term too long", "Definition too long"}

Rule(reason, term, definition) ==
  CASE reason = "Empty term" -> \A i \in 1..Len(term) : term[i] \in Whitespace
    [] reason = "Empty definition" ->
         \A i \in 1..Len(definition) : definition[i] \in Whitespace
    [] reason = "Term too long" -> Len(term) > 100
    [] reason = "Definition too long" -> Len(definition) > 500
    [] OTHER -> FALSE

IssuesExact ==
  /\ \A k \in 1..Len(issues) :
       \E i \in 1..Len(cards) :
         /\ issues[k][1] = cards[i][1]
         /\ Rule(issues[k][2], cards[i][1], cards[i][2])
  /\ \A i \in 1..Len(cards) : \A r \in Reasons :
       Rule(r, cards[i][1], cards[i][2])
         <=> \E k \in 1..Len(issues) : issues[k] = <<cards[i][1], r>>
  /\ \A k1, k2 \in 1..Len(issues) : issues[k1] = issues[k2] => k1 = k2

C8_ValidationRules ==
  /\ [](AtValidateReturn => IssuesExact)
  /\ [][pc = "validate_flashcards" =>
          /\ parse_stats' = parse_stats
          /\ (pc' = "validate_flashcards" => cards' = cards)]_vars

\* a validation of two pairs is about to return on a parser that has
\* parsed: a term of 100 characters with a definition of 500 gave no
\* issue, a term of 101 with a definition of 501 gave the two length issues
C8_Witness ==
  /\ AtValidateReturn
  /\ parse_stats = ParsedStats
  /\ Len(cards) = 2
  /\ Len(cards[1][1]) = 100 /\ Len(cards[1][2]) = 500
  /\ cards[2][1] = rep("x", 101) /\ cards[2][2] = rep("y", 501)
  /\ issues = <<<<cards[2][1], "Term too long">>,
                <<cards[2][1], "Definition too long">>>>

(***************************************************************************)
(* C9.  As claimed: the list validate_flashcards returns holds at most     *)
(* two issues for any one term.  The code refutes it: the four rules are   *)
(* independent and one pair can break all of them.                         *)
(***************************************************************************)
IssuesOf(term) == {k \in 1..Len(issues) : issues[k][1] = term}

C9_AtMostTwoIssues ==
  AtValidateReturn =>
    \A i \in 1..Len(cards) : Cardinality(IssuesOf(cards[i][1])) <= 2

\* C9 as amended: at most four issues for any one term
C9_AtMostFourIssues ==
  AtValidateReturn =>
    \A i \in 1..Len(cards) : Cardinality(IssuesOf(cards[i][1])) <= 4

\* a term of 101 blanks with a definition of 501 blanks has its four issues
C9_Witness ==
  /\ AtValidateReturn
  /\ \E i \in 1..Len(cards) :
       /\ cards[i] = <<rep(" ", 101), rep(" ", 501)>>
       /\ Cardinality(IssuesOf(cards[i][1])) = 4

(***************************************************************************)
(* C10.  detect_file_format(content) counts, for each candidate delimiter  *)
(* in the order tab, comma, semicolon, "##", "|", the lines that split     *)
(* into exactly two non-empty trimmed parts, returns the format with the   *)
(* highest count (the first in that order on a tie) and fails only when    *)
(* no delimiter splits a line.  The code refutes it: FileParser has no     *)
(* such method and the call fails on every content.                        *)
(***************************************************************************)
Candidates == <<TAB, COMMA, SEMICOLON, DOUBLE_HASH, PIPE>>
FormatNames == <<"tsv", "csv", "semicolon", "double_hash", "pipe">>

SplitCount(c, d) ==
  LET ls == split(c, <<"\n">>)
  IN Cardinality({i \in 1..Len(ls) :
       LET parts == split(strip(ls[i]), d)
       IN Len(parts) = 2 /\ strip(parts[1]) # <<>> /\ strip(parts[2]) # <<>>})

\* the format the detection policy names for content c, "" if it fails
DetectedFormat(c) ==
  LET best == {k \in 1..5 : \A j \in 1..5 :
                 SplitCount(c, Candidates[k]) >= SplitCount(c, Candidates[j])}
      first == CHOOSE k \in best : \A j \in best : k <= j
  IN IF SplitCount(c, Candidates[first]) = 0 THEN "" ELSE FormatNames[first]

C10_DetectionFailsOnlyWithoutSplit ==
  (pc = "raised" /\ exc = "AttributeError") => DetectedFormat(content) = ""

====
